---- MODULE Spec2Model ----
(***************************************************************************)
(* Model of the 6502 emulator core of src/src/main.rs: the memory (MEM),   *)
(* the processor (CPU) with its fetch/read helpers, and the execute loop   *)
(* with one action per arm of its opcode match.                            *)
(*                                                                         *)
(* Memory is the 64 KiB array MEM.data, kept as a sparse function: a cell  *)
(* that is not in the domain holds 0 (the value MEM::initialize gives it). *)
(*                                                                         *)
(* Rust integer arithmetic (+, -, << on u8/u16/u32) panics on overflow in  *)
(* a build with overflow checks (the default `cargo build`) and wraps in a *)
(* build without them (`--release`).  The variable overflow_checks is the  *)
(* build profile, chosen once in Init; both outcomes are modelled.         *)
(***************************************************************************)
EXTENDS Integers, Naturals, Sequences, FiniteSets, TLC

VARIABLES
    pc,              \* CPU.pc : u16
    sp,              \* CPU.sp : u8
    a,               \* CPU.a  : u8
    x,               \* CPU.x  : u8
    y,               \* CPU.y  : u8
    ps,              \* CPU.ps : the eight status flags
    mem,             \* MEM.data, sparse (absent cell = 0)
    cycles,          \* the local `cycles: u32` of execute (two limbs)
    state,           \* where the host program is
    overflow_checks, \* build profile: TRUE = arithmetic overflow panics
    entry,           \* history: machine state when execute was called
    prev,            \* history: machine state before the last operation
    last,            \* history: what the last instruction did
    steps,           \* history: instructions started in this execute call
    elapsed,         \* history: cycles charged in this execute call (unwrapped)
    pushes           \* history: the words JSR has written in this execute call

vars == <<pc, sp, a, x, y, ps, mem, cycles, state, overflow_checks,
          entry, prev, last, steps, elapsed, pushes>>

----------------------------------------------------------------------------
(* Bounds of the model *)

MaxBudget == 12         \* largest cycle budget handed to execute
MaxSteps  == 5          \* instructions followed per execute call

----------------------------------------------------------------------------
(* Widths *)

Byte  == 256            \* 2^8
Word  == 65536          \* 2^16

(* A u32 is kept as two 16-bit limbs, value = hi * 2^16 + lo, so that the  *)
(* counter keeps its 32-bit width.                                         *)
U32(n) == [hi |-> n \div Word, lo |-> n % Word]

U32Positive(c) == c.hi > 0 \/ c.lo > 0

\* c < k, for 0 <= k < 2^16
U32Less(c, k) == c.hi = 0 /\ c.lo < k

\* (c - k) mod 2^32, for 0 <= k < 2^16
U32Sub(c, k) ==
    IF c.lo >= k THEN [hi |-> c.hi, lo |-> c.lo - k]
    ELSE [hi |-> (c.hi - 1) % Word, lo |-> (c.lo - k) % Word]

(* Opcodes *)
INS_LDA_IM == 169       \* 0xA9
INS_LDA_ZP == 165       \* 0xA5
INS_LDA_ZX == 181       \* 0xB5
INS_LDA_AB == 173       \* 0xAD
INS_LDA_AX == 189       \* 0xBD
INS_LDA_AY == 185       \* 0xB9
INS_LDA_IX == 161       \* 0xA1
INS_LDA_IY == 177       \* 0xB1
INS_JSR    == 32        \* 0x20

LdaOpcodes == {INS_LDA_IM, INS_LDA_ZP, INS_LDA_ZX, INS_LDA_AB,
               INS_LDA_AX, INS_LDA_AY, INS_LDA_IX, INS_LDA_IY}
Handled    == LdaOpcodes \cup {INS_JSR}

----------------------------------------------------------------------------
(* Bitwise operators on naturals *)

RECURSIVE BitAnd(_, _)
BitAnd(m, n) ==
    IF m = 0 \/ n = 0 THEN 0
    ELSE ((m % 2) * (n % 2)) + 2 * BitAnd(m \div 2, n \div 2)

RECURSIVE BitOr(_, _)
BitOr(m, n) ==
    IF m = 0 THEN n
    ELSE IF n = 0 THEN m
    ELSE (IF m % 2 = 1 \/ n % 2 = 1 THEN 1 ELSE 0) + 2 * BitOr(m \div 2, n \div 2)

RECURSIVE BitXor(_, _)
BitXor(m, n) ==
    IF m = 0 THEN n
    ELSE IF n = 0 THEN m
    ELSE (((m % 2) + (n % 2)) % 2) + 2 * BitXor(m \div 2, n \div 2)

----------------------------------------------------------------------------
(* PS: the bitfield of eight flags; PS::new() clears all of them *)

PSNew == [c |-> FALSE, z |-> FALSE, i |-> FALSE, d |-> FALSE,
          b |-> FALSE, u |-> 0, v |-> FALSE, n |-> FALSE]

(* MEM *)

ZeroMem == [k \in {} |-> 0]

Read(m, addr) == IF addr \in DOMAIN m THEN m[addr] ELSE 0

Store(m, addr, val) ==
    [k \in (DOMAIN m) \cup {addr} |-> IF k = addr THEN val ELSE m[k]]

\* initialize leaving the array as it is
initialize_keeps_data == mem

initialize == ZeroMem

(* An execution context threads the program counter, the cycle counter,    *)
(* the first panic that has happened ("none" when there is none), the      *)
(* cycles charged so far and the memory bytes read or written so far.      *)

\* an arithmetic overflow: a panic only in a build with overflow checks
Overflow(ctx, cond, name) ==
    IF ctx.fault = "none" /\ overflow_checks /\ cond THEN name ELSE ctx.fault

\* *cycles -= k
Charge(ctx, k) ==
    [ctx EXCEPT !.cycles = U32Sub(ctx.cycles, k),
                !.fault  = Overflow(ctx, U32Less(ctx.cycles, k), "cycles"),
                !.spent  = ctx.spent + k]

\* memory.data[..] read or written n times
Access(ctx, n) == [ctx EXCEPT !.accesses = ctx.accesses + n]

\* self.pc += 1
IncPc(ctx) ==
    [ctx EXCEPT !.pc    = (ctx.pc + 1) % Word,
                !.fault = Overflow(ctx, ctx.pc = Word - 1, "pc")]

\* write_word storing the high byte first
write_word_high_first(m, value, addr, ctx) ==
    [mem |-> Store(Store(m, addr, value \div Byte), addr + 1, value % Byte),
     ctx |-> Charge(ctx, 2)]

write_word(m, value, addr, ctx) ==
    [mem |-> Store(Store(m, addr, value % Byte), addr + 1, value \div Byte),
     ctx |-> LET c == [ctx EXCEPT !.fault =
                          IF ctx.fault = "none" /\ addr + 1 >= Word
                          THEN "index" ELSE ctx.fault]
             IN  Charge(Access(c, 2), 2)]

\* fetch_byte forgetting to charge the cycle
fetch_byte_uncharged(ctx, m) ==
    [data |-> Read(m, ctx.pc),
     ctx  |-> IncPc(ctx)]

fetch_byte(ctx, m) ==
    [data |-> Read(m, ctx.pc),
     ctx  |-> Charge(IncPc(Access(ctx, 1)), 1)]

fetch_word(ctx, m) ==
    LET c1 == IncPc(ctx)
        c2 == IncPc(c1)
    IN  [data |-> BitOr(Read(m, ctx.pc), Read(m, c1.pc) * Byte),
         ctx  |-> Charge(Access(c2, 2), 2)]

\* read_byte moving the program counter as fetch_byte does
read_byte_advancing(ctx, m, addr) ==
    [data |-> Read(m, addr),
     ctx  |-> Charge(IncPc(Access(ctx, 1)), 1)]

read_byte(ctx, m, addr) ==
    [data |-> Read(m, addr),
     ctx  |-> Charge(Access(ctx, 1), 1)]

(* hi_byte << 8 is a shift of a u8: it panics with overflow checks, and    *)
(* without them the shift amount is taken modulo the width (8 % 8 = 0).    *)
ShlU8(val, s) == (val * (2 ^ (s % 8))) % Byte

read_word(ctx, m, addr) ==
    LET c1       == Charge(ctx, 1)
        low_byte == Read(m, addr)
        c2       == [c1 EXCEPT !.fault = Overflow(c1, addr = Word - 1, "addr")]
        hi_byte  == Read(m, (addr + 1) % Word)
        c3       == [c2 EXCEPT !.fault = Overflow(c2, TRUE, "shift")]
    IN  [data |-> BitOr(low_byte, ShlU8(hi_byte, 8)),
         ctx  |-> Access(c3, 2)]

addr_absolute(ctx, m) == fetch_word(ctx, m)

\* set_zero_and_negative_flags rebuilding the status byte from scratch
set_zero_and_negative_flags_fresh(flags, register) ==
    [PSNew EXCEPT !.z = (register = 0),
                  !.n = (BitAnd(register, 64) > 0)]

set_zero_and_negative_flags(flags, register) ==
    [flags EXCEPT !.z = (register = 0),
                  !.n = (BitAnd(register, 64) > 0)]

----------------------------------------------------------------------------
(* History records *)

Snapshot == [pc |-> pc, sp |-> sp, a |-> a, x |-> x, y |-> y,
             ps |-> ps, mem |-> mem, cycles |-> cycles]

NoSnapshot == [pc |-> 0, sp |-> 0, a |-> 0, x |-> 0, y |-> 0,
               ps |-> PSNew, mem |-> ZeroMem, cycles |-> U32(0)]

NoLast == [op |-> -1, fault |-> "none", penalty |-> FALSE, ptr |-> 0,
           base |-> 0, eff |-> 0, cost |-> 0, accesses |-> 0]

----------------------------------------------------------------------------
(* Inputs: what the host puts in the registers and in memory *)

ResetVector == 65532                    \* 0xFFFC

IndexValues == {0, 1}
\* the flags as PS::new() leaves them, and with every flag that no
\* instruction writes set
FlagValues  == {PSNew,
                [c |-> TRUE, z |-> FALSE, i |-> TRUE, d |-> TRUE,
                 b |-> TRUE, u |-> 1, v |-> TRUE, n |-> FALSE]}
StackValues == {254, 255}               \* 0xFE, 0xFF
OperandLow  == {0, 16, 255}             \* 0x00, 0x10, 0xFF
OperandHigh == {0, 48}                  \* 0x00, 0x30
Opcodes     == Handled \cup {0, 234}    \* 0x00 and 0xEA have no arm

Prog(op, lo, hi) ==
    (ResetVector :> op) @@ (ResetVector + 1 :> lo) @@ (ResetVector + 2 :> hi)

(* Data and pointers the operands above can reach *)
Table ==
    (16 :> 128) @@ (17 :> 64) @@ (192 :> 192) @@ (193 :> 1) @@
    (255 :> 127) @@ (256 :> 128) @@
    (12304 :> 132) @@ (12543 :> 64) @@ (12544 :> 128)

(* main: JSR $4242 at the reset vector, LDA #$84 at $4242 *)
MainImage ==
    (65532 :> INS_JSR) @@ (65533 :> 66) @@ (65534 :> 66) @@
    (16962 :> INS_LDA_IM) @@ (16963 :> 132)

(* JSR $4242 at the reset vector, JSR $5050 at $4242 *)
NestedCallImage ==
    (65532 :> INS_JSR) @@ (65533 :> 66) @@ (65534 :> 66) @@
    (16962 :> INS_JSR) @@ (16963 :> 80) @@ (16964 :> 80)

Images ==
    {MainImage, NestedCallImage}
    \cup { Prog(op, lo, hi) : op \in Opcodes, lo \in OperandLow, hi \in OperandHigh }
    \cup { Prog(op, lo, hi) @@ Table :
               op \in Opcodes, lo \in OperandLow, hi \in OperandHigh }

Inject(m, img) ==
    [k \in (DOMAIN m) \cup (DOMAIN img) |->
        IF k \in DOMAIN img THEN img[k] ELSE m[k]]

----------------------------------------------------------------------------
(* Construction: the struct literals of main; the host is free to choose   *)
(* the field values.                                                       *)

Init ==
    /\ pc = ResetVector
    /\ sp \in StackValues
    /\ a = 0
    /\ x \in IndexValues
    /\ y \in IndexValues
    /\ ps \in FlagValues
    /\ mem = ZeroMem
    /\ cycles = U32(0)
    /\ state = "constructed"
    /\ overflow_checks \in BOOLEAN
    /\ entry = NoSnapshot
    /\ prev = NoSnapshot
    /\ last = NoLast
    /\ steps = 0
    /\ elapsed = 0
    /\ pushes = <<>>

(* CPU::reset *)
reset ==
    /\ state \in {"constructed", "reset", "loaded", "returned"}
    /\ pc' = 65532
    /\ sp' = 254
    /\ ps' = PSNew
    /\ a' = 0
    /\ x' = 0
    /\ y' = 0
    /\ mem' = initialize
    /\ cycles' = U32(0)
    /\ state' = "reset"
    /\ entry' = NoSnapshot
    /\ prev' = Snapshot
    /\ last' = NoLast
    /\ steps' = 0
    /\ elapsed' = 0
    /\ pushes' = <<>>
    /\ UNCHANGED overflow_checks

(* main: mem.data[..] = ..; a program image is written into blank memory *)
Preload(img) ==
    /\ state \in {"constructed", "reset"}
    /\ mem = ZeroMem
    /\ mem' = Inject(mem, img)
    /\ state' = "loaded"
    /\ prev' = Snapshot
    /\ UNCHANGED <<pc, sp, a, x, y, ps, cycles, overflow_checks,
                   entry, last, steps, elapsed, pushes>>

(* CPU::execute, the call: `mut cycles` takes the budget and the loop      *)
(* condition is evaluated for the first time                               *)
execute(budget) ==
    /\ state \in {"constructed", "reset", "loaded"}
    /\ cycles' = U32(budget)
    /\ state' = IF budget > 0 THEN "running" ELSE "returned"
    /\ entry' = [Snapshot EXCEPT !.cycles = U32(budget)]
    /\ prev' = Snapshot
    /\ last' = NoLast
    /\ steps' = 0
    /\ elapsed' = 0
    /\ pushes' = <<>>
    /\ UNCHANGED <<pc, sp, a, x, y, ps, mem, overflow_checks>>

----------------------------------------------------------------------------
(* CPU::execute, one iteration of the loop per action *)

Ctx0 == [pc |-> pc, cycles |-> cycles, fault |-> "none", spent |-> 0,
         accesses |-> 0]

\* let instruction = self.fetch_byte(&mut cycles, memory);
Instruction == fetch_byte(Ctx0, mem)

(* What an arm leaves behind.  penalty: the conditional `cycles -= 1` was  *)
(* taken; ptr: the address handed to read_word; base: the address before   *)
(* the index is added; eff: the address the data byte is read from;        *)
(* pushed: the words handed to write_word, with their addresses.           *)
Result(ctx, na, nps, nmem, nsp, npc, pen, ptr, base, eff) ==
    [ctx |-> ctx, a |-> na, ps |-> nps, mem |-> nmem, sp |-> nsp, pc |-> npc,
     penalty |-> pen, ptr |-> ptr, base |-> base, eff |-> eff,
     pushed |-> <<>>]

\* u8 + u8
AddU8(ctx, m, n) ==
    [val |-> (m + n) % Byte,
     ctx |-> [ctx EXCEPT !.fault = Overflow(ctx, m + n >= Byte, "u8")]]

\* u16 + u16
AddU16(ctx, m, n) ==
    [val |-> (m + n) % Word,
     ctx |-> [ctx EXCEPT !.fault = Overflow(ctx, m + n >= Word, "addr")]]

Arm_LDA_IM(c0) ==
    LET f == fetch_byte(c0, mem)
    IN  Result(f.ctx, f.data, set_zero_and_negative_flags(ps, f.data),
               mem, sp, f.ctx.pc, FALSE, 0, 0, 0)

Arm_LDA_ZP(c0) ==
    LET f == fetch_byte(c0, mem)
        r == read_byte(f.ctx, mem, f.data)
    IN  Result(r.ctx, r.data, set_zero_and_negative_flags(ps, r.data),
               mem, sp, r.ctx.pc, FALSE, 0, f.data, f.data)

Arm_LDA_ZX(c0) ==
    LET f  == fetch_byte(c0, mem)
        s  == AddU8(f.ctx, f.data, x)
        c1 == Charge(s.ctx, 1)
        r  == read_byte(c1, mem, s.val)
    IN  Result(r.ctx, r.data, ps, mem, sp, r.ctx.pc, FALSE, 0, f.data, s.val)

Arm_LDA_AB(c0) ==
    LET w == addr_absolute(c0, mem)
        r == read_byte(w.ctx, mem, w.data)
    IN  Result(r.ctx, r.data, ps, mem, sp, r.ctx.pc, FALSE, 0, w.data, w.data)

Arm_LDA_AX(c0) ==
    LET w == addr_absolute(c0, mem)
        s == AddU16(w.ctx, w.data, x)
        r == read_byte(s.ctx, mem, s.val)
    IN  Result(r.ctx, r.data, ps, mem, sp, r.ctx.pc, FALSE, 0, w.data, s.val)

Arm_LDA_AY(c0) ==
    LET w   == addr_absolute(c0, mem)
        s   == AddU16(w.ctx, w.data, y)
        pen == (BitXor(w.data, s.val) \div Byte) = 0
        c1  == IF pen THEN Charge(s.ctx, 1) ELSE s.ctx
        r   == read_byte(c1, mem, s.val)
    IN  Result(r.ctx, r.data, ps, mem, sp, r.ctx.pc, pen, 0, w.data, s.val)

Arm_LDA_IX(c0) ==
    LET f  == fetch_byte(c0, mem)
        s  == AddU8(f.ctx, f.data, x)
        c1 == Charge(s.ctx, 1)
        p  == read_word(c1, mem, s.val)
        r  == read_byte(p.ctx, mem, p.data)
    IN  Result(r.ctx, r.data, ps, mem, sp, r.ctx.pc, FALSE, s.val, p.data, p.data)

Arm_LDA_IY(c0) ==
    LET f   == fetch_byte(c0, mem)
        p   == read_word(f.ctx, mem, f.data)
        s   == AddU16(p.ctx, p.data, y)
        pen == (BitXor(p.data, s.val) \div Byte) = 0
        c1  == IF pen THEN Charge(s.ctx, 1) ELSE s.ctx
        r   == read_byte(c1, mem, s.val)
    IN  Result(r.ctx, r.data, ps, mem, sp, r.ctx.pc, pen, f.data, p.data, s.val)

Arm_JSR(c0) ==
    LET w   == fetch_word(c0, mem)
        ret == [val |-> (w.ctx.pc - 1) % Word,
                ctx |-> [w.ctx EXCEPT !.fault = Overflow(w.ctx, w.ctx.pc = 0, "pc")]]
        ww  == write_word(mem, ret.val, sp, ret.ctx)
        s   == AddU8(ww.ctx, sp, 1)
        c1  == Charge(s.ctx, 1)
    IN  [Result(c1, a, ps, ww.mem, s.val, w.data, FALSE, 0, 0, 0)
            EXCEPT !.pushed = <<[addr |-> sp, value |-> ret.val]>>]

Arm_Unhandled(c0) ==
    Result(c0, a, ps, mem, sp, c0.pc, FALSE, 0, 0, 0)

(* The end of one iteration: the registers take the arm's result and the   *)
(* loop condition `cycles > 0` is evaluated; a panic ends the program.     *)
Commit(op, r) ==
    /\ prev' = Snapshot
    /\ last' = [op |-> op, fault |-> r.ctx.fault, penalty |-> r.penalty,
                ptr |-> r.ptr, base |-> r.base, eff |-> r.eff,
                cost |-> r.ctx.spent, accesses |-> r.ctx.accesses]
    /\ steps' = steps + 1
    /\ elapsed' = elapsed + r.ctx.spent
    /\ UNCHANGED <<x, y, overflow_checks, entry>>
    /\ IF r.ctx.fault = "none"
       THEN /\ pc' = r.pc
            /\ sp' = r.sp
            /\ a' = r.a
            /\ ps' = r.ps
            /\ mem' = r.mem
            /\ cycles' = r.ctx.cycles
            /\ state' = IF U32Positive(r.ctx.cycles) THEN "running" ELSE "returned"
            /\ pushes' = pushes \o r.pushed
       ELSE /\ state' = "panicked"
            /\ UNCHANGED <<pc, sp, a, ps, mem, cycles, pushes>>

Running(op) ==
    /\ state = "running"
    /\ steps < MaxSteps
    /\ Instruction.data = op

LDA_IM == Running(INS_LDA_IM) /\ Commit(INS_LDA_IM, Arm_LDA_IM(Instruction.ctx))
LDA_ZP == Running(INS_LDA_ZP) /\ Commit(INS_LDA_ZP, Arm_LDA_ZP(Instruction.ctx))
LDA_ZX == Running(INS_LDA_ZX) /\ Commit(INS_LDA_ZX, Arm_LDA_ZX(Instruction.ctx))
LDA_AB == Running(INS_LDA_AB) /\ Commit(INS_LDA_AB, Arm_LDA_AB(Instruction.ctx))
LDA_AX == Running(INS_LDA_AX) /\ Commit(INS_LDA_AX, Arm_LDA_AX(Instruction.ctx))
LDA_AY == Running(INS_LDA_AY) /\ Commit(INS_LDA_AY, Arm_LDA_AY(Instruction.ctx))
LDA_IX == Running(INS_LDA_IX) /\ Commit(INS_LDA_IX, Arm_LDA_IX(Instruction.ctx))
LDA_IY == Running(INS_LDA_IY) /\ Commit(INS_LDA_IY, Arm_LDA_IY(Instruction.ctx))
JSR    == Running(INS_JSR)    /\ Commit(INS_JSR, Arm_JSR(Instruction.ctx))

Unhandled ==
    /\ state = "running"
    /\ steps < MaxSteps
    /\ Instruction.data \notin Handled
    /\ Commit(Instruction.data, Arm_Unhandled(Instruction.ctx))

Next ==
    \/ reset
    \/ \E img \in Images : Preload(img)
    \/ \E budget \in 0..MaxBudget : execute(budget)
    \/ LDA_IM
    \/ LDA_ZP
    \/ LDA_ZX
    \/ LDA_AB
    \/ LDA_AX
    \/ LDA_AY
    \/ LDA_IX
    \/ LDA_IY
    \/ JSR
    \/ Unhandled

Spec == Init /\ [][Next]_vars

----------------------------------------------------------------------------
(* Properties *)

Hi(w) == w \div Byte
Lo(w) == w % Byte

\* the little-endian 16-bit value held at addr, addr + 1
WordAt(m, addr) == Read(m, addr) + Byte * Read(m, (addr + 1) % Word)

Completed == steps >= 1 /\ last.fault = "none"

FromReset(s) ==
    /\ s.pc = 65532 /\ s.sp = 254 /\ s.a = 0 /\ s.x = 0 /\ s.y = 0
    /\ s.ps = PSNew

(* C1: after every LDA variant the zero flag equals (v = 0) and the        *)
(* negative flag equals (v >= 0x80), v being the byte loaded into the      *)
(* accumulator.                                                            *)
C1_LdaSetsZeroAndNegative ==
    (Completed /\ last.op \in LdaOpcodes)
        => /\ ps.z = (a = 0)
           /\ ps.n = (a >= 128)

(* C2: from reset, with JSR $4242 at the reset vector and LDA #$84 at      *)
(* $4242, execute(8) ends with A = 0x84, Z clear, N set, PC = 0x4244.      *)
MainScenario ==
    /\ FromReset(entry)
    /\ entry.mem = MainImage
    /\ entry.cycles = U32(8)

C2_EndToEnd ==
    (MainScenario /\ state \in {"returned", "panicked"})
        => /\ state = "returned"
           /\ a = 132
           /\ ps.z = FALSE
           /\ ps.n = TRUE
           /\ pc = 16964

(* C3: with a budget equal to the documented cost of the instruction at    *)
(* the program counter, execute runs exactly that instruction, consumes    *)
(* exactly that many cycles and stops with the budget at 0.                *)
PageCrossed(base, eff) == Hi(base) # Hi(eff)

DocumentedCost(s) ==
    LET op == Read(s.mem, s.pc)
        b  == Read(s.mem, (s.pc + 1) % Word)
        w  == WordAt(s.mem, (s.pc + 1) % Word)
        p  == Read(s.mem, b) + Byte * Read(s.mem, (b + 1) % Byte)
    IN  CASE op = INS_LDA_IM -> 2
          [] op = INS_LDA_ZP -> 3
          [] op = INS_LDA_ZX -> 4
          [] op = INS_LDA_AB -> 4
          [] op = INS_LDA_AX -> 4 + (IF PageCrossed(w, w + s.x) THEN 1 ELSE 0)
          [] op = INS_LDA_AY -> 4 + (IF PageCrossed(w, w + s.y) THEN 1 ELSE 0)
          [] op = INS_LDA_IX -> 6
          [] op = INS_LDA_IY -> 5 + (IF PageCrossed(p, p + s.y) THEN 1 ELSE 0)
          [] op = INS_JSR    -> 6
          [] OTHER           -> 0

C3_ExactBudgetRunsOneInstruction ==
    (/\ steps >= 1
     /\ Read(entry.mem, entry.pc) \in Handled
     /\ entry.cycles = U32(DocumentedCost(entry)))
        => /\ state = "returned"
           /\ steps = 1
           /\ cycles = U32(0)

(* C4: for LDA absolute,X, absolute,Y and (indirect),Y the extra cycle is  *)
(* charged if and only if ((base XOR effective) >> 8) # 0.                 *)
C4_PenaltyIffPageCrossed ==
    (Completed /\ last.op \in {INS_LDA_AX, INS_LDA_AY, INS_LDA_IY})
        => (last.penalty <=> (BitXor(last.base, last.eff) \div Byte) # 0)

(* C5: after JSR with target T, P being the program counter after the two  *)
(* operand bytes, the program counter is T and the word at the address     *)
(* held by the stack pointer is P - 1, low byte first.                     *)
JsrTarget == WordAt(prev.mem, (prev.pc + 1) % Word)
JsrP      == (prev.pc + 3) % Word

C5_JsrPushesReturnAddress ==
    (Completed /\ last.op = INS_JSR)
        => /\ pc = JsrTarget
           /\ Read(mem, prev.sp) = Lo((JsrP - 1) % Word)
           /\ Read(mem, prev.sp + 1) = Hi((JsrP - 1) % Word)

C5_Witness ==
    /\ Completed
    /\ last.op = INS_JSR
    /\ pc = 16962
    /\ Read(mem, 254) = 254
    /\ Read(mem, 255) = 255

(* C6: an instruction that overdraws the budget still completes, the loop  *)
(* goes on only while the remaining budget is positive and has returned    *)
(* only when at least the budget has elapsed.                              *)
Budget == entry.cycles.lo

C6_StopsAtFirstExhaustedBoundary ==
    /\ last.fault # "cycles"
    /\ state = "running" => elapsed < Budget
    /\ state = "returned" => elapsed >= Budget

(* C7: an opcode without an arm costs exactly the 1 cycle of its fetch,    *)
(* advances the program counter by 1, changes nothing else and does not    *)
(* abort; the loop still ends by budget exhaustion.                        *)
C7_UnhandledIsNonFatal ==
    (steps >= 1 /\ last.op # -1 /\ last.op \notin Handled)
        => /\ state # "panicked"
           /\ last.cost = 1
           /\ pc = (prev.pc + 1) % Word
           /\ a = prev.a /\ x = prev.x /\ y = prev.y /\ sp = prev.sp
           /\ ps = prev.ps
           /\ mem = prev.mem
           /\ cycles = U32Sub(prev.cycles, 1)
           /\ state = "returned" <=> cycles = U32(0)

(* C8: reset yields PC = 0xFFFC, SP = 0xFE, all eight flags cleared,       *)
(* A = X = Y = 0 and every memory cell 0, whatever the state before.       *)
C8_ResetState ==
    state = "reset"
        => /\ pc = 65532
           /\ sp = 254
           /\ ps.c = FALSE /\ ps.z = FALSE /\ ps.i = FALSE /\ ps.d = FALSE
           /\ ps.b = FALSE /\ ps.u = 0 /\ ps.v = FALSE /\ ps.n = FALSE
           /\ a = 0 /\ x = 0 /\ y = 0
           /\ \A addr \in 0..(Word - 1) : Read(mem, addr) = 0

C8_Witness ==
    /\ state = "reset"
    /\ prev.pc # 65532
    /\ prev.sp # 254
    /\ prev.a # 0
    /\ prev.x # 0
    /\ prev.y # 0
    /\ prev.ps.n
    /\ prev.mem # ZeroMem

(* C9: from reset with 0xA9, 0x00 at the reset vector and a budget of 2,   *)
(* execute runs one instruction and leaves A = 0, Z set, N clear and no    *)
(* cycles remaining.                                                       *)
ImmediateZeroScenario ==
    /\ FromReset(entry)
    /\ entry.mem = Prog(INS_LDA_IM, 0, 0)
    /\ entry.cycles = U32(2)

C9_ImmediateLda ==
    (ImmediateZeroScenario /\ steps >= 1)
        => /\ state = "returned"
           /\ steps = 1
           /\ a = 0
           /\ ps.z = TRUE
           /\ ps.n = FALSE
           /\ cycles = U32(0)

C9_Witness ==
    /\ ImmediateZeroScenario
    /\ state = "returned"
    /\ last.op = INS_LDA_IM

(* C10: read_word(addr) returns memory[addr] + 256 * memory[addr + 1] for  *)
(* every addr < 0xFFFF.                                                    *)
C10_ReadWordLittleEndian ==
    (steps >= 1 /\ last.op \in {INS_LDA_IX, INS_LDA_IY} /\ last.ptr < Word - 1
        /\ last.fault \in {"none", "shift"})
        => /\ last.fault = "none"
           /\ last.base = Read(prev.mem, last.ptr)
                            + Byte * Read(prev.mem, last.ptr + 1)

(* C11: register and address arithmetic wraps modulo its width and never   *)
(* traps: zero-page,X and (indirect,X) use the zero-page address           *)
(* (b + X) mod 256 and complete, and the stack pointer increment of JSR    *)
(* wraps modulo 256.                                                       *)
OperandByte == Read(prev.mem, (prev.pc + 1) % Word)

C11_ArithmeticWrapsNeverTraps ==
    (steps >= 1 /\ last.op \in {INS_LDA_ZX, INS_LDA_IX, INS_JSR})
        => /\ last.fault \notin {"u8", "pc", "addr"}
           /\ (last.op = INS_LDA_ZX /\ last.fault = "none")
                  => last.eff = (OperandByte + prev.x) % Byte
           /\ (last.op = INS_LDA_IX /\ last.fault = "none")
                  => last.ptr = (OperandByte + prev.x) % Byte
           /\ (last.op = INS_JSR /\ last.fault = "none")
                  => sp = (prev.sp + 1) % Byte

(* C12: every LDA variant leaves the carry, interrupt-disable, decimal,    *)
(* break, unused and overflow flags, X, Y, the stack pointer and every     *)
(* memory cell as they were before the instruction.                        *)
C12_LdaFrame ==
    (Completed /\ last.op \in LdaOpcodes)
        => /\ ps.c = prev.ps.c /\ ps.i = prev.ps.i /\ ps.d = prev.ps.d
           /\ ps.b = prev.ps.b /\ ps.u = prev.ps.u /\ ps.v = prev.ps.v
           /\ x = prev.x
           /\ y = prev.y
           /\ sp = prev.sp
           /\ mem = prev.mem

C12_Witness ==
    /\ Completed
    /\ last.op = INS_LDA_ZP
    /\ a # prev.a
    /\ ps.n # prev.ps.n
    /\ ps.c /\ ps.i /\ ps.d /\ ps.b /\ ps.u = 1 /\ ps.v
    /\ x = 1 /\ y = 1 /\ sp = 255
    /\ mem # ZeroMem

(* C13: the cycles an instruction removes from the budget equal the number *)
(* of memory bytes it reads or writes plus the extra cycles the dispatch   *)
(* table lists for it (zero-page,X and (indirect,X): 1; absolute,X,        *)
(* absolute,Y and (indirect),Y: 1 on a page cross; JSR: 1).                *)
TableExtra ==
    CASE last.op \in {INS_LDA_ZX, INS_LDA_IX, INS_JSR} -> 1
      [] last.op \in {INS_LDA_AX, INS_LDA_AY, INS_LDA_IY} ->
             IF PageCrossed(last.base, last.eff) THEN 1 ELSE 0
      [] OTHER -> 0

C13_EveryAccessChargedOnce ==
    Completed => last.cost = last.accesses + TableExtra

(* C14: each LDA variant loads the byte at the effective address of its    *)
(* addressing mode: the operand itself, memory[b], memory[(b + X) mod 256],*)
(* memory[w], memory[w + X], memory[w + Y], memory[p] with p the           *)
(* little-endian pointer at zero-page (b + X), memory[p + Y] with p the    *)
(* little-endian pointer at zero-page b.                                   *)
ExpectedLoad ==
    LET m  == prev.mem
        b  == Read(m, (prev.pc + 1) % Word)
        w  == WordAt(m, (prev.pc + 1) % Word)
        zx == (b + prev.x) % Byte
    IN  CASE last.op = INS_LDA_IM -> b
          [] last.op = INS_LDA_ZP -> Read(m, b)
          [] last.op = INS_LDA_ZX -> Read(m, zx)
          [] last.op = INS_LDA_AB -> Read(m, w)
          [] last.op = INS_LDA_AX -> Read(m, (w + prev.x) % Word)
          [] last.op = INS_LDA_AY -> Read(m, (w + prev.y) % Word)
          [] last.op = INS_LDA_IX -> Read(m, WordAt(m, zx))
          [] last.op = INS_LDA_IY -> Read(m, (WordAt(m, b) + prev.y) % Word)

C14_LdaLoadsEffectiveAddress ==
    (Completed /\ last.op \in LdaOpcodes) => a = ExpectedLoad

(* C15: from the reset state, after any sequence of JSR instructions every *)
(* return address pushed so far is still intact in memory: the bytes a     *)
(* later JSR writes are disjoint from those of every earlier JSR.          *)
Intact(p) ==
    /\ Read(mem, p.addr) = Lo(p.value)
    /\ Read(mem, p.addr + 1) = Hi(p.value)

PushedCells(p) == {p.addr, p.addr + 1}

C15_ReturnAddressesPreserved ==
    FromReset(entry)
        => /\ \A k \in DOMAIN pushes : Intact(pushes[k])
           /\ \A j, k \in DOMAIN pushes :
                  j # k => PushedCells(pushes[j]) \cap PushedCells(pushes[k]) = {}

(* C16: the program counter advances by the encoded length of the          *)
(* instruction just executed (2, 3, or 1 for an opcode without an arm) or  *)
(* becomes the JSR target; reading the data byte or the zero-page pointer  *)
(* does not move it, and the opcode dispatched is the byte at the program  *)
(* counter the previous instruction left.                                  *)
EncodedLength(op) ==
    IF op \in {INS_LDA_IM, INS_LDA_ZP, INS_LDA_ZX, INS_LDA_IX, INS_LDA_IY} THEN 2
    ELSE IF op \in {INS_LDA_AB, INS_LDA_AX, INS_LDA_AY, INS_JSR} THEN 3
    ELSE 1

C16_PcAdvancesByLength ==
    Completed
        => /\ last.op = Read(prev.mem, prev.pc)
           /\ pc = IF last.op = INS_JSR THEN JsrTarget
                   ELSE (prev.pc + EncodedLength(last.op)) % Word

C16_Witness ==
    /\ Completed
    /\ steps = 2
    /\ last.op = INS_LDA_IM
    /\ prev.pc = 16962
    /\ pc = 16964

====
